---- MODULE Spec2Model ----
(***************************************************************************)
(* A model of buildlibxml.py: the tar extractor (unpack_tarball), the      *)
(* version selection (tryint, find_max_version), the directory selection   *)
(* (http_find_latest_version_directory) and download_library.              *)
(*                                                                         *)
(* Paths are records [abs, parts]: whether the string starts with "/" and  *)
(* its "/"-separated components.  Strings the code scans character by      *)
(* character (file names, version strings) are sequences of one-character  *)
(* strings.                                                                *)
(***************************************************************************)
EXTENDS Integers, Sequences, FiniteSets, TLC

VARIABLES
    \* ---- unpack_tarball ----
    has_data_filter, \* hasattr(tarfile, 'data_filter') of the running Python
    fs,              \* the file system: absolute location -> node
    archive,         \* the members the tar stream has delivered, in order
    run,             \* 1: first call of unpack_tarball, 2: the call repeated
    pos,             \* members of the archive processed by the current call
    pc,              \* "loop" | "dirs" | "ret" | "returned" | "error"
    base_dir,        \* None or the first path component established
    directories,     \* indices of the deferred directory members
    dpos,            \* directory members extracted by the trailing pass
    extracted,       \* indices handed to tar.extract by the current call, in order
    logged,          \* indices printed as 'Unexpected path' and skipped
    samesize,        \* indices skipped because the path exists with equal size
    err,             \* what raised: "none" | "name" | "link" | "type" | "extract" | "TypeError"
    errpos,          \* index of the member at which the call raised (0: none)
    result,          \* the returned path, or None
    first,           \* what the first call left: [pc, result, fs]
    \* ---- find_max_version ----
    filenames,       \* the argument filenames: a sequence of strings
    version_re,      \* "default": version_re is None; "download": the pattern of line 301
    fmv,             \* the call: [pc |-> "call" | "done", raised, value]
    \* ---- http_find_latest_version_directory ----
    hrefs,           \* the href values of the page read_url returns, in page order
    version,         \* the argument version: a string, <<>> for None (or "")
    hfl,             \* the call: [pc |-> "call" | "done", raised, value]
    \* ---- download_library ----
    location,        \* "ftp" when location.startswith('ftp://'), else "http"
    remote,          \* the file names the remote listing holds
    localfiles,      \* os.listdir(dest_dir), in the order the OS gives
    dl,              \* the call: [pc, version, filename, listing, attempts,
                     \*            tries, slept, raised, result]; tries is
                     \*            the outcome of each urlretrieve call
    \* ---- find_top_dir_of_zipfile ----
    filelist,        \* [f.filename for f in zipfile.filelist]
    ftd,             \* the call: [pc |-> "call" | "done", raised, value]
    \* ---- build_libxml2xslt ----
    with_zlib,       \* parameter with_zlib
    libmtime,        \* per library name: 0 when existing_libs has no file
                     \* for it, else os.path.getmtime of that file
    dirmtime,        \* per source directory: os.path.getmtime of it
    build_all_following,  \* _build_all_following[0]
    bld              \* the call: [pc, considered, rebuilt, fresh]

tarvars == <<has_data_filter, fs, archive, run, pos, pc, base_dir, directories,
             dpos, extracted, logged, samesize, err, errpos, result, first>>

vervars == <<filenames, version_re, fmv>>
dirvars == <<hrefs, version, hfl>>
dlvars == <<location, remote, localfiles, dl>>
zipvars == <<filelist, ftd>>
bldvars == <<with_zlib, libmtime, dirmtime, build_all_following, bld>>
vars == <<tarvars, vervars, dirvars, dlvars, zipvars, bldvars>>

None == "None"

\* ------------------------------------------------------------------ bounds
MaxMembers == 3      \* members read from one archive
MaxLinkHops == 3     \* symbolic links followed while resolving one path
MaxFiles == 3        \* file names in one listing
MaxLinks == 3        \* directory links on one page
MaxRemote == 2       \* file names in the remote listing of download_library
MaxLocal == 2        \* files in the download directory
MaxEntries == 3      \* entries of one zip archive
MaxLibTime == 2      \* modification times of the pre-built library files
MaxDirTime == 1      \* modification times of the source directories

\* ------------------------------------------------------------------- paths
Rel(parts) == [abs |-> FALSE, parts |-> parts]
Abs(parts) == [abs |-> TRUE, parts |-> parts]

cwd == Abs(<<"w">>)
dest == Rel(<<"d">>)

\* os.path.join(a, b): an absolute b replaces a
join(a, b) == IF b.abs THEN b ELSE [abs |-> a.abs, parts |-> a.parts \o b.parts]

RECURSIVE NormParts(_, _)
\* os.path.normpath on the components of an absolute path: "" and "." vanish,
\* ".." removes the component before it and is dropped at the root
NormParts(done, rest) ==
    IF rest = <<>> THEN done
    ELSE LET c == Head(rest) IN
         IF c = "" \/ c = "." THEN NormParts(done, Tail(rest))
         ELSE IF c = ".."
              THEN NormParts(IF done = <<>> THEN <<>>
                             ELSE SubSeq(done, 1, Len(done) - 1), Tail(rest))
              ELSE NormParts(Append(done, c), Tail(rest))

\* os.path.abspath(p) = normpath(join(os.getcwd(), p))
abspath(p) == Abs(NormParts(<<>>, join(cwd, p).parts))

\* os.path.dirname of a normalised absolute path
dirname(p) ==
    [abs |-> p.abs,
     parts |-> IF p.parts = <<>> THEN <<>> ELSE SubSeq(p.parts, 1, Len(p.parts) - 1)]

IsPrefix(s, t) == Len(s) <= Len(t) /\ SubSeq(t, 1, Len(s)) = s

\* os.path.commonpath([a, b]) of two normalised absolute paths: the longest
\* common sequence of whole components
commonpath(a, b) ==
    LET n == CHOOSE k \in 0..Len(a.parts) :
                 /\ k <= Len(b.parts)
                 /\ SubSeq(a.parts, 1, k) = SubSeq(b.parts, 1, k)
                 /\ \A j \in (k + 1)..Len(a.parts) :
                        ~ (j <= Len(b.parts)
                           /\ SubSeq(a.parts, 1, j) = SubSeq(b.parts, 1, j))
    IN Abs(SubSeq(a.parts, 1, n))

\* str.startswith on two normalised absolute paths.  commonpath's result is a
\* component prefix of its arguments, so the character prefix test coincides
\* with the component prefix test on it.
startswith(s, prefix) == IsPrefix(prefix.parts, s.parts)

\* the containment test of lines 392 and 402
Contained(abs_dest, abs_path) == startswith(commonpath(abs_dest, abs_path), abs_dest)

\* member.name.split('/')[0]
FirstDir(name) ==
    IF name.abs THEN "" ELSE IF name.parts = <<>> THEN "" ELSE name.parts[1]

\* ------------------------------------------------------------- file system
\* A node of the file system.  Locations are sequences of components counted
\* from "/"; every location of fs has its parent in fs.
DirNode == [kind |-> "dir", size |-> 4096, data |-> "", target |-> Rel(<<>>)]
FileNode(size, data) == [kind |-> "file", size |-> size, data |-> data, target |-> Rel(<<>>)]
SymNode(target) == [kind |-> "sym", size |-> 0, data |-> "", target |-> target]
SpecialNode == [kind |-> "special", size |-> 0, data |-> "", target |-> Rel(<<>>)]

RECURSIVE Walk(_, _, _, _, _)
\* The location the operating system reaches for the components `rest` from
\* location `cur`: ".." climbs from where the walk stands, a symbolic link met
\* on the way (and the last component, when followLast) is replaced by its target.
Walk(f, cur, rest, followLast, hops) ==
    IF rest = <<>> THEN cur
    ELSE LET c == Head(rest)
             r == Tail(rest)
             nxt == Append(cur, c)
         IN IF c = "" \/ c = "." THEN Walk(f, cur, r, followLast, hops)
            ELSE IF c = ".."
                 THEN Walk(f, IF cur = <<>> THEN <<>> ELSE SubSeq(cur, 1, Len(cur) - 1),
                           r, followLast, hops)
                 ELSE IF /\ nxt \in DOMAIN f
                         /\ f[nxt].kind = "sym"
                         /\ (r # <<>> \/ followLast)
                         /\ hops > 0
                      THEN Walk(f, IF f[nxt].target.abs THEN <<>> ELSE cur,
                                f[nxt].target.parts \o r, followLast, hops - 1)
                      ELSE Walk(f, nxt, r, followLast, hops)

\* os.path.realpath(p), and the location open() and stat() reach for p
Reach(f, p, followLast) == Walk(f, <<>>, join(cwd, p).parts, followLast, MaxLinkHops)
realpath(f, p) == Abs(Reach(f, p, TRUE))

\* os.path.exists(p) and os.path.lexists(p)
exists(f, p) ==
    LET loc == Reach(f, p, TRUE) IN loc \in DOMAIN f /\ f[loc].kind # "sym"
lexists(f, p) == Reach(f, p, FALSE) \in DOMAIN f

\* os.path.getsize(p), for a p that exists
getsize(f, p) == f[Reach(f, p, TRUE)].size

ProperPrefixes(loc) == {SubSeq(loc, 1, k) : k \in 0..(Len(loc) - 1)}

\* Writing `node` at location loc after os.makedirs of its missing parents.
\* ok is FALSE when a parent is no directory (NotADirectoryError).
Put(f, loc, node) ==
    LET ups == ProperPrefixes(loc)
        bad == \E u \in ups : u \in DOMAIN f /\ f[u].kind # "dir"
        dom == DOMAIN f \cup ups \cup {loc}
    IN [ok |-> ~bad,
        fs |-> IF bad THEN f
               ELSE [x \in dom |-> IF x = loc THEN node
                                   ELSE IF x \in DOMAIN f THEN f[x] ELSE DirNode]]

\* ------------------------------------------------------------ tar members
Member(name, type, size, linkname) ==
    [name |-> name, type |-> type, size |-> size, linkname |-> linkname]
RegFile(parts, size) == Member(Rel(parts), "file", size, Rel(<<>>))
Directory(parts) == Member(Rel(parts), "dir", 0, Rel(<<>>))
SymLink(parts, target) == Member(Rel(parts), "sym", 0, target)
HardLink(parts, target) == Member(Rel(parts), "lnk", 0, target)
Fifo(parts) == Member(Rel(parts), "fifo", 0, Rel(<<>>))

\* The members an archive is drawn from: names inside and outside the
\* destination, under the common top directory and beside it, of every type.
Members ==
    { RegFile(<<"top", "f">>, 1), RegFile(<<"top", "f">>, 2),
      RegFile(<<"other", "f">>, 1), RegFile(<<"..", "e">>, 1),
      Directory(<<"top">>), Directory(<<"top", "a">>),
      Directory(<<"other">>), Directory(<<"..", "e">>),
      SymLink(<<"top", "l">>, Rel(<<"f">>)),
      SymLink(<<"top", "l">>, Rel(<<"..", "x">>)),
      SymLink(<<"top", "l">>, Rel(<<"..", "..">>)),
      HardLink(<<"top", "h">>, Rel(<<"top", "f">>)),
      HardLink(<<"top", "h">>, Rel(<<"..", "x">>)),
      Fifo(<<"top", "p">>),
      SymLink(<<"top", "l">>, Rel(<<"..">>)),
      SymLink(<<"top", "l", "m">>, Rel(<<"..">>)),
      RegFile(<<"top", "l", "m", "e">>, 1) }

\* ------------------------------------------------------------ tar.extract
\* tarfile.data_filter(member, path): TRUE when it raises a FilterError
DataFilterRejects(f, m, path) ==
    LET dest_path == realpath(f, path)
        name == IF m.name.abs THEN Rel(m.name.parts) ELSE m.name
        target_path == realpath(f, join(dest_path, name))
        link_path == IF m.type = "sym"
                     THEN realpath(f, join(join(dest_path, dirname(name)), m.linkname))
                     ELSE realpath(f, join(dest_path, m.linkname))
    IN \/ commonpath(target_path, dest_path) # dest_path
       \/ m.type \notin {"file", "dir", "sym", "lnk"}
       \/ /\ m.type \in {"sym", "lnk"}
          /\ \/ m.linkname.abs
             \/ commonpath(link_path, dest_path) # dest_path

\* TarFile._find_link_target: the member before index i that a hard link names
LinkSources(arch, i, m) ==
    {j \in 1..(i - 1) : j <= Len(arch)
                        /\ abspath(arch[j].name) = abspath(m.linkname)
                        /\ arch[j].type = "file"}

\* tar.extract(member, path) for member i of the archive, on file system f:
\* [ok, fs], ok FALSE when it raises
TarExtract(f, arch, i, m, path, filtered) ==
    LET name == IF filtered /\ m.name.abs THEN Rel(m.name.parts) ELSE m.name
        targetpath == join(path, name)
        loc == Reach(f, targetpath, TRUE)
        lloc == Reach(f, targetpath, FALSE)
        src == Reach(f, join(path, m.linkname), TRUE)
        fail == [ok |-> FALSE, fs |-> f]
    IN IF filtered /\ DataFilterRejects(f, m, path) THEN fail
       ELSE IF m.type = "file"
            THEN IF loc \in DOMAIN f /\ f[loc].kind = "dir" THEN fail
                 ELSE Put(f, loc, FileNode(m.size, "archive"))
       ELSE IF m.type = "dir"
            THEN IF lloc \in DOMAIN f THEN [ok |-> TRUE, fs |-> f]
                 ELSE Put(f, lloc, DirNode)
       ELSE IF m.type = "sym"
            THEN \* an existing directory cannot be unlinked: the OSError sends
                 \* makelink to its archive copy, which reports an ExtractError
                 \* that errorlevel 1 only logs
                 IF lloc \in DOMAIN f /\ f[lloc].kind = "dir" THEN [ok |-> TRUE, fs |-> f]
                 ELSE Put(f, lloc, SymNode(m.linkname))
       ELSE IF m.type = "lnk"
            THEN IF /\ exists(f, join(path, m.linkname))
                    /\ lloc \notin DOMAIN f
                    /\ f[src].kind # "dir"
                 THEN Put(f, lloc, f[src])
                 ELSE IF LinkSources(arch, i, m) = {}
                      THEN \* os.link failed: ExtractError, logged; no link
                           \* source at all: KeyError, raised
                           [ok |-> exists(f, join(path, m.linkname)), fs |-> f]
                      ELSE IF loc \in DOMAIN f /\ f[loc].kind = "dir" THEN fail
                           ELSE Put(f, loc,
                                    LET j == CHOOSE j \in LinkSources(arch, i, m) :
                                                 \A k \in LinkSources(arch, i, m) : k <= j
                                    IN FileNode(arch[j].size, "archive"))
       ELSE \* makefifo / makedev: os.mkfifo, os.mknod on a free path
            IF lloc \in DOMAIN f THEN fail ELSE Put(f, lloc, SpecialNode)

\* --------------------------------------------------------- unpack_tarball
abs_dest == abspath(dest)

\* mutant: the name check passes directory members unchecked
NameEscapes_NotForDirectories(m) ==
    m.type # "dir" /\ ~ Contained(abs_dest, abspath(join(dest, m.name)))

\* lines 390-392: the member's own name leaves the destination
NameEscapes(m) == ~ Contained(abs_dest, abspath(join(dest, m.name)))

\* mutant: a hard link's target resolved like a symbolic link's
LinkBase_AlwaysLinkDirectory(m, abs_path) == dirname(abs_path)

\* lines 399-400: what a link's target is resolved against
LinkBase(m, abs_path) == IF m.type = "sym" THEN dirname(abs_path) ELSE abs_dest

\* lines 398-402: the link's resolved target leaves the destination
LinkEscapes(m) ==
    /\ m.type \in {"sym", "lnk"}
    /\ ~ Contained(abs_dest,
                   abspath(join(LinkBase(m, abspath(join(dest, m.name))), m.linkname)))

\* mutant: directory members are extracted where they stand
IsDeferred_Never(m) == FALSE

\* line 395: the member is put aside for the trailing pass
IsDeferred(m) == m.type = "dir"

\* mutant: members of any type are let through
IsUnexpectedType_Never(m) == FALSE

\* line 406: neither directory, link nor regular file
IsUnexpectedType(m) == m.type \notin {"dir", "sym", "lnk", "file"}

\* mutant: the existing file must also hold the archive's content
AlreadyThere_SameContent(f, m) ==
    LET abs_path == abspath(join(dest, m.name))
    IN /\ exists(f, abs_path)
       /\ getsize(f, abs_path) = m.size
       /\ f[Reach(f, abs_path, TRUE)].data = "archive"

\* line 418: the path exists and has the member's size
AlreadyThere(f, m) ==
    LET abs_path == abspath(join(dest, m.name))
    IN exists(f, abs_path) /\ getsize(f, abs_path) = m.size

\* lines 411-415: the member's first component differs from the established one
OffBase(bd, m) == bd # None /\ bd # FirstDir(m.name)

\* One iteration of the loop of lines 388-420 on member i: what it does
\* ("raise", "defer", "log", "skip", "extract"), the exception's cause, the
\* file system and base_dir it leaves.
LoopBody(f, arch, bd, i, m, filtered) ==
    LET newbd == IF bd = None THEN FirstDir(m.name) ELSE bd
        x == TarExtract(f, arch, i, m, abs_dest, filtered)
        out(act, e, g, b) == [act |-> act, err |-> e, fs |-> g, base_dir |-> b]
    IN IF NameEscapes(m) THEN out("raise", "name", f, bd)
       ELSE IF IsDeferred(m) THEN out("defer", "none", f, bd)
       ELSE IF LinkEscapes(m) THEN out("raise", "link", f, bd)
       ELSE IF IsUnexpectedType(m) THEN out("raise", "type", f, bd)
       ELSE IF OffBase(bd, m) THEN out("log", "none", f, bd)
       ELSE IF AlreadyThere(f, m) THEN out("skip", "none", f, newbd)
       ELSE IF x.ok THEN out("extract", "none", x.fs, newbd)
       ELSE out("raise", "extract", f, newbd)

\* for member in tar: ... (lines 388-420), one member per step.  The first
\* call reads the members off the stream; the repeated call reads them again.
ProcessMember ==
    /\ pc = "loop"
    /\ \E m \in Members :
        /\ IF run = 1 THEN pos < MaxMembers
           ELSE pos < Len(archive) /\ m = archive[pos + 1]
        /\ LET i == pos + 1
               arch == IF run = 1 THEN Append(archive, m) ELSE archive
           IN \E o \in {LoopBody(fs, arch, base_dir, i, m, has_data_filter)} :
              /\ archive' = arch
              /\ pos' = i
              /\ fs' = o.fs
              /\ base_dir' = o.base_dir
              /\ directories' = IF o.act = "defer" THEN Append(directories, i)
                                ELSE directories
              /\ extracted' = IF o.act = "extract" THEN Append(extracted, i)
                              ELSE extracted
              /\ logged' = IF o.act = "log" THEN logged \cup {i} ELSE logged
              /\ samesize' = IF o.act = "skip" THEN samesize \cup {i} ELSE samesize
              /\ pc' = IF o.act = "raise" THEN "error" ELSE "loop"
              /\ err' = o.err
              /\ errpos' = IF o.act = "raise" THEN i ELSE 0
    /\ UNCHANGED <<has_data_filter, run, dpos, result, first>>
    /\ UNCHANGED <<vervars, dirvars, dlvars, zipvars, bldvars>>

\* the stream is exhausted: the loop of line 388 ends
EndOfArchive ==
    /\ pc = "loop"
    /\ IF run = 1 THEN TRUE ELSE pos = Len(archive)
    /\ pc' = "dirs"
    /\ UNCHANGED <<has_data_filter, fs, archive, run, pos, base_dir, directories,
                   dpos, extracted, logged, samesize, err, errpos, result, first>>
    /\ UNCHANGED <<vervars, dirvars, dlvars, zipvars, bldvars>>

\* for member in directories: tar.extract(member, abs_dest) (lines 423-424)
ExtractDirectory ==
    /\ pc = "dirs"
    /\ dpos < Len(directories)
    /\ LET i == directories[dpos + 1]
       IN \E x \in {TarExtract(fs, archive, i, archive[i], abs_dest, has_data_filter)} :
          /\ fs' = x.fs
          /\ dpos' = dpos + 1
          /\ extracted' = IF x.ok THEN Append(extracted, i) ELSE extracted
          /\ pc' = IF x.ok THEN "dirs" ELSE "error"
          /\ err' = IF x.ok THEN "none" ELSE "extract"
          /\ errpos' = IF x.ok THEN 0 ELSE i
    /\ UNCHANGED <<has_data_filter, archive, run, pos, base_dir, directories,
                   logged, samesize, result, first>>
    /\ UNCHANGED <<vervars, dirvars, dlvars, zipvars, bldvars>>

\* return os_path.join(dest, base_dir) (line 426); join raises TypeError on None
Return ==
    /\ pc = "dirs"
    /\ dpos = Len(directories)
    /\ pc' = IF base_dir = None THEN "error" ELSE "returned"
    /\ err' = IF base_dir = None THEN "TypeError" ELSE "none"
    /\ result' = IF base_dir = None THEN None ELSE join(dest, Rel(<<base_dir>>))
    /\ UNCHANGED <<has_data_filter, fs, archive, run, pos, base_dir, directories,
                   dpos, extracted, logged, samesize, errpos, first>>
    /\ UNCHANGED <<vervars, dirvars, dlvars, zipvars, bldvars>>

\* unpack_tarball is called again on the same archive and destination
Rerun ==
    /\ run = 1
    /\ pc \in {"returned", "error"}
    /\ run' = 2
    /\ first' = [pc |-> pc, result |-> result, err |-> err, fs |-> fs,
                 extracted |-> extracted]
    /\ pos' = 0
    /\ pc' = "loop"
    /\ base_dir' = None
    /\ directories' = <<>>
    /\ dpos' = 0
    /\ extracted' = <<>>
    /\ logged' = {}
    /\ samesize' = {}
    /\ err' = "none"
    /\ errpos' = 0
    /\ result' = None
    /\ UNCHANGED <<has_data_filter, fs, archive>>
    /\ UNCHANGED <<vervars, dirvars, dlvars, zipvars, bldvars>>

\* The destination exists (safe_mkdir(build_dir), line 485) and is empty, or
\* holds a file that an earlier, unrelated run left at top/f.
EmptyFs == [x \in {<<>>, <<"w">>, <<"w", "d">>} |-> DirNode]
InitialFss == {EmptyFs, Put(EmptyFs, <<"w", "d", "top", "f">>, FileNode(1, "other")).fs}

InitTar ==
    /\ has_data_filter \in BOOLEAN
    /\ fs \in InitialFss
    /\ archive = <<>>
    /\ run = 1
    /\ pos = 0
    /\ pc = "loop"
    /\ base_dir = None
    /\ directories = <<>>
    /\ dpos = 0
    /\ extracted = <<>>
    /\ logged = {}
    /\ samesize = {}
    /\ err = "none"
    /\ errpos = 0
    /\ result = None
    /\ first = [pc |-> None, result |-> None, err |-> "none", fs |-> EmptyFs,
                extracted |-> <<>>]

\* no unpack_tarball call is in progress
IdleTar ==
    /\ has_data_filter = FALSE /\ fs = EmptyFs /\ archive = <<>> /\ run = 1
    /\ pos = 0 /\ pc = "idle" /\ base_dir = None /\ directories = <<>>
    /\ dpos = 0 /\ extracted = <<>> /\ logged = {} /\ samesize = {}
    /\ err = "none" /\ errpos = 0 /\ result = None
    /\ first = [pc |-> None, result |-> None, err |-> "none", fs |-> EmptyFs,
                extracted |-> <<>>]

NextTar == ProcessMember \/ EndOfArchive \/ ExtractDirectory \/ Return \/ Rerun


\* ================================================================ strings
\* A string is a sequence of one-character strings.
Digits == {"0", "1", "2", "3", "4", "5", "6", "7", "8", "9"}

\* ord(c) of the characters that occur
Ord(c) ==
    CASE c = "-" -> 45 [] c = "." -> 46 [] c = "/" -> 47
      [] c = "0" -> 48 [] c = "1" -> 49 [] c = "2" -> 50 [] c = "3" -> 51
      [] c = "4" -> 52 [] c = "5" -> 53 [] c = "6" -> 54 [] c = "7" -> 55
      [] c = "8" -> 56 [] c = "9" -> 57
      [] c = "R" -> 82
      [] c = "a" -> 97 [] c = "b" -> 98 [] c = "c" -> 99 [] c = "g" -> 103
      [] c = "i" -> 105 [] c = "l" -> 108 [] c = "o" -> 111 [] c = "r" -> 114
      [] c = "t" -> 116 [] c = "x" -> 120 [] c = "z" -> 122
      [] OTHER -> 0

\* s < t on strings: by code point, a proper prefix first
RECURSIVE StrLess(_, _)
StrLess(s, t) ==
    IF t = <<>> THEN FALSE
    ELSE IF s = <<>> THEN TRUE
    ELSE IF Head(s) = Head(t) THEN StrLess(Tail(s), Tail(t))
    ELSE Ord(Head(s)) < Ord(Head(t))

\* s[i:].startswith(t), i counted from 1
StartsAt(s, i, t) == i + Len(t) - 1 <= Len(s) /\ SubSeq(s, i, i + Len(t) - 1) = t

\* the length of the longest run of characters of `class` in s from index i
RECURSIVE RunLength(_, _, _)
RunLength(s, i, class) ==
    IF i <= Len(s) /\ s[i] \in class THEN 1 + RunLength(s, i + 1, class) ELSE 0

\* str.split(sep) for a one-character separator
RECURSIVE Split(_, _, _)
Split(s, sep, piece) ==
    IF s = <<>> THEN <<piece>>
    ELSE IF Head(s) = sep THEN <<piece>> \o Split(Tail(s), sep, <<>>)
    ELSE Split(Tail(s), sep, Append(piece, Head(s)))

\* version_string.replace("-", ".-")
RECURSIVE ReplaceDash(_)
ReplaceDash(s) ==
    IF s = <<>> THEN <<>>
    ELSE IF Head(s) = "-" THEN <<".", "-">> \o ReplaceDash(Tail(s))
    ELSE <<Head(s)>> \o ReplaceDash(Tail(s))

\* the value of a string of digits
RECURSIVE DigitsValue(_, _)
DigitsValue(s, acc) ==
    IF s = <<>> THEN acc ELSE DigitsValue(Tail(s), 10 * acc + (Ord(Head(s)) - 48))

\* int(s) succeeds: an optional sign and at least one digit
IsIntLiteral(s) ==
    LET body == IF s # <<>> /\ Head(s) = "-" THEN Tail(s) ELSE s
    IN body # <<>> /\ \A k \in 1..Len(body) : body[k] \in Digits

\* tryint(s), lines 247-251: the integer, or the string itself on ValueError
tryint(s) ==
    IF IsIntLiteral(s)
    THEN [int |-> TRUE,
          n |-> IF Head(s) = "-" THEN 0 - DigitsValue(Tail(s), 0) ELSE DigitsValue(s, 0),
          s |-> <<>>]
    ELSE [int |-> FALSE, n |-> 0, s |-> s]

\* tuple(map(tryint, pieces))
MapTryint(pieces) == [k \in 1..Len(pieces) |-> tryint(pieces[k])]

\* ------------------------------------------------- comparing version tuples
\* x < y on two components: "lt", "ge", or "TypeError" for an int against a str
ItemLess(x, y) ==
    IF x.int # y.int THEN "TypeError"
    ELSE IF x.int THEN (IF x.n < y.n THEN "lt" ELSE "ge")
    ELSE IF StrLess(x.s, y.s) THEN "lt" ELSE "ge"

\* the first index at which two tuples differ (==), or 0
FirstDiff(a, b) ==
    LET n == IF Len(a) < Len(b) THEN Len(a) ELSE Len(b)
        d == {k \in 1..n : a[k] # b[k]}
    IN IF d = {} THEN 0 ELSE CHOOSE k \in d : \A j \in d : k <= j

\* a < b on two tuples, as Python's tuple comparison decides it
TupleLess(a, b) ==
    LET k == FirstDiff(a, b)
    IN IF k = 0 THEN (IF Len(a) < Len(b) THEN "lt" ELSE "ge")
       ELSE ItemLess(a[k], b[k])

\* ------------------------------------------------------------ list.sort
\* x < y on two (version tuple, version string) pairs
EntryLess(x, y) ==
    IF x.tuple # y.tuple THEN TupleLess(x.tuple, y.tuple)
    ELSE IF StrLess(x.string, y.string) THEN "lt" ELSE "ge"

\* list.sort() on fewer than 64 elements: the first run is counted (and
\* reversed when strictly descending), the rest is inserted by binary search.
\* Every comparison is x < y; the first one that raises ends the sort.
RECURSIVE RunEnd(_, _, _)
\* the length of the run that starts the list, or -1 when a comparison raises
RunEnd(a, k, descending) ==
    IF k > Len(a) THEN Len(a)
    ELSE LET c == EntryLess(a[k], a[k - 1])
         IN IF c = "TypeError" THEN 0 - 1
            ELSE IF (c = "lt") = descending THEN RunEnd(a, k + 1, descending)
            ELSE k - 1

Reverse(a) == [k \in 1..Len(a) |-> a[Len(a) + 1 - k]]

RECURSIVE BinarySearch(_, _, _, _)
\* where pivot goes among a[1..r] (counted from 0), or -1 when a comparison raises
BinarySearch(a, pivot, l, r) ==
    IF l >= r THEN l
    ELSE LET p == l + ((r - l) \div 2)
             c == EntryLess(pivot, a[p + 1])
         IN IF c = "TypeError" THEN 0 - 1
            ELSE IF c = "lt" THEN BinarySearch(a, pivot, l, p)
            ELSE BinarySearch(a, pivot, p + 1, r)

RECURSIVE BinarySort(_, _)
BinarySort(a, start) ==
    IF start >= Len(a) THEN [raised |-> FALSE, list |-> a]
    ELSE LET pivot == a[start + 1]
             l == BinarySearch(a, pivot, 0, start)
         IN IF l < 0 THEN [raised |-> TRUE, list |-> a]
            ELSE BinarySort(SubSeq(a, 1, l) \o <<pivot>> \o SubSeq(a, l + 1, start)
                               \o SubSeq(a, start + 2, Len(a)),
                            start + 1)

\* versions.sort(), line 321
ListSort(a) ==
    IF Len(a) < 2 THEN [raised |-> FALSE, list |-> a]
    ELSE LET c == EntryLess(a[2], a[1])
             n == RunEnd(a, 3, c = "lt")
         IN IF c = "TypeError" \/ n < 0 THEN [raised |-> TRUE, list |-> a]
            ELSE BinarySort(IF c = "lt" THEN Reverse(SubSeq(a, 1, n)) \o SubSeq(a, n + 1, Len(a))
                            ELSE a,
                            n)

\* ------------------------------------------------------- version patterns
LibName == <<"z", "l", "i", "b">>
TarGz == <<".", "t", "a", "r", ".", "g", "z">>
NoMatch == <<>>

\* re.compile(r'%s-([0-9.]+[0-9](?:-[abrc0-9]+)?)' % libname) tried at index i
\* of fn: group(1), or NoMatch.  [0-9.]+ is greedy, so the group ends at the
\* last digit of the run of digits and dots; the suffix is taken when present.
DefaultMatchAt(libname, fn, i) ==
    LET j == i + Len(libname) + 1
        r == RunLength(fn, j, Digits \cup {"."})
        ks == {k \in 2..r : fn[j + k - 1] \in Digits}
        k == CHOOSE x \in ks : \A y \in ks : y <= x
        t == RunLength(fn, j + k + 1, Digits \cup {"a", "b", "r", "c"})
    IN IF ~ StartsAt(fn, i, libname \o <<"-">>) \/ ks = {} THEN NoMatch
       ELSE IF j + k <= Len(fn) /\ fn[j + k] = "-" /\ t >= 1
            THEN SubSeq(fn, j, j + k + t)
            ELSE SubSeq(fn, j, j + k - 1)

\* re.compile(r'zlib-([0-9.]+[0-9])[.]tar[.]gz'), line 301, tried at index i
DownloadMatchAt(libname, fn, i) ==
    LET j == i + Len(libname) + 1
        r == RunLength(fn, j, Digits \cup {"."})
        ks == {k \in 2..r : fn[j + k - 1] \in Digits /\ StartsAt(fn, j + k, TarGz)}
        k == CHOOSE x \in ks : \A y \in ks : y <= x
    IN IF ~ StartsAt(fn, i, libname \o <<"-">>) \/ ks = {} THEN NoMatch
       ELSE SubSeq(fn, j, j + k - 1)

MatchAt(pattern, libname, fn, i) ==
    IF pattern = "default" THEN DefaultMatchAt(libname, fn, i)
    ELSE DownloadMatchAt(libname, fn, i)

\* pattern.search(fn): group(1) of the leftmost match, or NoMatch
Search(pattern, libname, fn) ==
    LET hits == {i \in 1..Len(fn) : MatchAt(pattern, libname, fn, i) # NoMatch}
    IN IF hits = {} THEN NoMatch
       ELSE MatchAt(pattern, libname, fn, CHOOSE i \in hits : \A h \in hits : i <= h)

\* tuple(map(tryint, version_string.replace("-", ".-").split('.'))), line 315
VersionTuple(version_string) == MapTryint(Split(ReplaceDash(version_string), ".", <<>>))

RECURSIVE Versions(_, _, _)
\* the list `versions` of lines 310-316
Versions(pattern, libname, fns) ==
    IF fns = <<>> THEN <<>>
    ELSE LET v == Search(pattern, libname, Head(fns))
         IN (IF v = NoMatch THEN <<>>
             ELSE <<[tuple |-> VersionTuple(v), string |-> v]>>)
            \o Versions(pattern, libname, Tail(fns))

\* find_max_version(libname, filenames, pattern), lines 307-324
find_max_version(libname, fns, pattern) ==
    LET versions == Versions(pattern, libname, fns)
        sorted == ListSort(versions)
    IN IF versions = <<>> THEN [raised |-> "Exception", value |-> <<>>]
       ELSE IF sorted.raised THEN [raised |-> "TypeError", value |-> <<>>]
       ELSE [raised |-> "none", value |-> sorted.list[Len(sorted.list)].string]

\* The file names a listing is drawn from:
\*   zlib-1.2.3.tar.gz
\*   zlib-1.2.3-rc1.tar.gz
\*   zlib-1.2.3-1.tar.gz
\*   zlib-1.2.3.4.tar.gz
\*   zlib-1..2.tar.gz
\*   zlib-1.0.2.tar.gz
\*   zlib-2.9.12.tar.gz
\*   zlib-2.10.0.tar.gz
\*   README
\*   xlib-9.9.tar.gz
FileNames ==
    { <<"z", "l", "i", "b", "-", "1", ".", "2", ".", "3", ".", "t", "a", "r", ".", "g", "z">>,
      <<"z", "l", "i", "b", "-", "1", ".", "2", ".", "3", "-", "r", "c", "1", ".", "t", "a", "r", ".", "g", "z">>,
      <<"z", "l", "i", "b", "-", "1", ".", "2", ".", "3", "-", "1", ".", "t", "a", "r", ".", "g", "z">>,
      <<"z", "l", "i", "b", "-", "1", ".", "2", ".", "3", ".", "4", ".", "t", "a", "r", ".", "g", "z">>,
      <<"z", "l", "i", "b", "-", "1", ".", ".", "2", ".", "t", "a", "r", ".", "g", "z">>,
      <<"z", "l", "i", "b", "-", "1", ".", "0", ".", "2", ".", "t", "a", "r", ".", "g", "z">>,
      <<"z", "l", "i", "b", "-", "2", ".", "9", ".", "1", "2", ".", "t", "a", "r", ".", "g", "z">>,
      <<"z", "l", "i", "b", "-", "2", ".", "1", "0", ".", "0", ".", "t", "a", "r", ".", "g", "z">>,
      <<"R", "E", "A", "D", "M", "E">>,
      <<"x", "l", "i", "b", "-", "9", ".", "9", ".", "t", "a", "r", ".", "g", "z">> }

\* ------------------------------------------------- find_max_version, called
RECURSIVE SeqsUpTo(_, _)
\* the sequences over S of length at most n
SeqsUpTo(S, n) ==
    IF n = 0 THEN {<<>>}
    ELSE LET shorter == SeqsUpTo(S, n - 1)
         IN shorter \cup {Append(q, x) : q \in {t \in shorter : Len(t) = n - 1}, x \in S}

InitVer ==
    /\ filenames \in SeqsUpTo(FileNames, MaxFiles)
    /\ version_re \in {"default", "download"}
    /\ fmv = [pc |-> "call", raised |-> "none", value |-> <<>>]

\* no find_max_version call is in progress
IdleVer ==
    /\ filenames = <<>> /\ version_re = "default"
    /\ fmv = [pc |-> "idle", raised |-> "none", value |-> <<>>]

\* find_max_version(libname, filenames, version_re) runs
FindMaxVersion ==
    /\ fmv.pc = "call"
    /\ \E r \in {find_max_version(LibName, filenames, version_re)} :
           fmv' = [pc |-> "done", raised |-> r.raised, value |-> r.value]
    /\ UNCHANGED <<filenames, version_re>>
    /\ UNCHANGED <<tarvars, dirvars, dlvars, zipvars, bldvars>>

NextVer == FindMaxVersion

\* ------------------------------------- http_find_latest_version_directory
\* one href value against ([0-9]+)\.([0-9]+)/? of line 208, which the quotes
\* around it delimit: the pair (int, int), or <<>>
DirectoryOf(h) ==
    LET r1 == RunLength(h, 1, Digits)
        r2 == RunLength(h, r1 + 2, Digits)
        end == r1 + 1 + r2
    IN IF /\ r1 >= 1
          /\ r1 + 1 <= Len(h) /\ h[r1 + 1] = "."
          /\ r2 >= 1
          /\ \/ Len(h) = end
             \/ Len(h) = end + 1 /\ h[end + 1] = "/"
       THEN <<DigitsValue(SubSeq(h, 1, r1), 0), DigitsValue(SubSeq(h, r1 + 2, end), 0)>>
       ELSE <<>>

RECURSIVE Directories(_)
\* the list `directories` of lines 206-209
Directories(hs) ==
    IF hs = <<>> THEN <<>>
    ELSE (IF DirectoryOf(Head(hs)) = <<>> THEN <<>> ELSE <<DirectoryOf(Head(hs))>>)
         \o Directories(Tail(hs))

\* a < b on two (int, int) pairs
PairLess(a, b) == a[1] < b[1] \/ (a[1] = b[1] /\ a[2] < b[2])

\* max(directories), line 212
MaxPair(ds) ==
    LET S == {ds[k] : k \in 1..Len(ds)}
    IN CHOOSE m \in S : \A d \in S : ~ PairLess(m, d)

RECURSIVE SplitMax(_, _, _, _)
\* str.split(sep, maxsplit)
SplitMax(s, sep, maxsplit, piece) ==
    IF s = <<>> THEN <<piece>>
    ELSE IF Head(s) = sep /\ maxsplit > 0
         THEN <<piece>> \o SplitMax(Tail(s), sep, maxsplit - 1, <<>>)
         ELSE SplitMax(Tail(s), sep, maxsplit, Append(piece, Head(s)))

RECURSIVE Decimal(_)
\* "%s" % n for an integer n >= 0
Decimal(n) ==
    LET d == <<"0", "1", "2", "3", "4", "5", "6", "7", "8", "9">>[(n % 10) + 1]
    IN IF n < 10 THEN <<d>> ELSE Decimal(n \div 10) \o <<d>>

\* urljoin(url, name) for a relative name: name replaces what follows the
\* last "/" of url
urljoin(url, name) ==
    LET slashes == {k \in 1..Len(url) : url[k] = "/"}
        last == IF slashes = {} THEN 0 ELSE CHOOSE k \in slashes : \A j \in slashes : j <= k
    IN SubSeq(url, 1, last) \o name

\* the listing URL (LIBXML2_LOCATION, line 132, shortened)
LOCATION == <<"l", "o", "c", "/">>

\* major, minor, _ = version.split(".", 2); int(major); int(minor), lines 214-215:
\* ValueError unless there are three parts and two integer literals
VersionPrefix(v) ==
    LET parts == SplitMax(v, ".", 2, <<>>)
    IN IF Len(parts) # 3 \/ ~ IsIntLiteral(parts[1]) \/ ~ IsIntLiteral(parts[2])
       THEN [raised |-> TRUE, pair |-> <<>>]
       ELSE [raised |-> FALSE, pair |-> <<tryint(parts[1]).n, tryint(parts[2]).n>>]

\* http_find_latest_version_directory(url, version), lines 203-219
http_find_latest_version_directory(url, hs, v) ==
    LET dirs == Directories(hs)
        pin == VersionPrefix(v)
        listed == {dirs[k] : k \in 1..Len(dirs)}
        best_version == IF v # <<>> /\ pin.pair \in listed THEN pin.pair
                        ELSE MaxPair(dirs)
    IN IF dirs = <<>> THEN [raised |-> "none", value |-> url]
       ELSE IF v # <<>> /\ pin.raised THEN [raised |-> "ValueError", value |-> <<>>]
       ELSE [raised |-> "none",
             value |-> urljoin(url, Decimal(best_version[1]) \o <<".">>
                                    \o Decimal(best_version[2])) \o <<"/">>]

\* The href values a page is drawn from, and the versions asked for
Hrefs == { <<"2", ".", "9", "/">>,
           <<"2", ".", "1", "0", "/">>,
           <<"2", ".", "9", ".", "1", "/">>,
           <<"1", ".", "0">>,
           <<"x", "/">> }
AskedVersions == { <<>>,
                   <<"2", ".", "9", ".", "1", "4">>,
                   <<"2", ".", "9">>,
                   <<"2", ".", "1", "0", ".", "0">>,
                   <<"1", ".", "0", ".", "0", ".", "1">>,
                   <<"3", ".", "1", ".", "4">>,
                   <<"1">> }

InitDir ==
    /\ hrefs \in SeqsUpTo(Hrefs, MaxLinks)
    /\ version \in AskedVersions
    /\ hfl = [pc |-> "call", raised |-> "none", value |-> <<>>]

\* no http_find_latest_version_directory call is in progress
IdleDir ==
    /\ hrefs = <<>> /\ version = <<>>
    /\ hfl = [pc |-> "idle", raised |-> "none", value |-> <<>>]

\* http_find_latest_version_directory(url, version) runs
FindLatestVersionDirectory ==
    /\ hfl.pc = "call"
    /\ \E r \in {http_find_latest_version_directory(LOCATION, hrefs, version)} :
           hfl' = [pc |-> "done", raised |-> r.raised, value |-> r.value]
    /\ UNCHANGED <<hrefs, version>>
    /\ UNCHANGED <<tarvars, vervars, dlvars, zipvars, bldvars>>

NextDir == FindLatestVersionDirectory

\* -------------------------------------------------------- download_library
\* match_libfile_version, line 136: re.compile('^[^-]*-([.0-9-]+)[.].*').match
\* group(1), or NoMatch.  The "-" is the first one of fn; the greedy group
\* gives back characters until a "." follows it.
match_libfile_version(fn) ==
    LET dashes == {k \in 1..Len(fn) : fn[k] = "-"}
        j == 1 + CHOOSE k \in dashes : \A d \in dashes : k <= d
        r == RunLength(fn, j, Digits \cup {".", "-"})
        ks == {k \in 1..(r - 1) : fn[j + k] = "."}
        k == CHOOSE x \in ks : \A y \in ks : y <= x
    IN IF dashes = {} THEN NoMatch
       ELSE IF ks = {} THEN NoMatch
       ELSE SubSeq(fn, j, j + k - 1)

\* '(%s)' % filename.replace('%s', '(?:[0-9.]+[0-9])'), line 333, tried at
\* index i of fn: the text matched, or NoMatch.  The dots of the file name
\* template are unescaped and match any character.
ListPatternAt(libname, fn, i) ==
    LET j == i + Len(libname) + 1
        r == RunLength(fn, j, Digits \cup {"."})
        ks == {k \in 2..r : /\ fn[j + k - 1] \in Digits
                            /\ j + k + 6 <= Len(fn)
                            /\ SubSeq(fn, j + k + 1, j + k + 3) = <<"t", "a", "r">>
                            /\ SubSeq(fn, j + k + 5, j + k + 6) = <<"g", "z">>}
        k == CHOOSE x \in ks : \A y \in ks : y <= x
    IN IF ~ StartsAt(fn, i, libname \o <<"-">>) \/ ks = {} THEN NoMatch
       ELSE SubSeq(fn, i, j + k + 6)

RECURSIVE http_listfiles(_, _)
\* http_listfiles(url, re_pattern), lines 222-225, on a page of file names
http_listfiles(libname, page) ==
    IF page = <<>> THEN <<>>
    ELSE LET fn == Head(page)
             hits == {i \in 1..Len(fn) : ListPatternAt(libname, fn, i) # NoMatch}
         IN (IF hits = {} THEN <<>>
             ELSE <<ListPatternAt(libname, fn, CHOOSE i \in hits : \A h \in hits : i <= h)>>)
            \o http_listfiles(libname, Tail(page))

Zero == [int |-> TRUE, n |-> 0, s |-> <<>>]

\* mutant: the scan takes any local file, whatever library it belongs to
IsLocalCandidate_AnyLibrary(libname, fn) == match_libfile_version(fn) # NoMatch

\* lines 341-343: the local file belongs to the library and carries a version
IsLocalCandidate(libname, fn) ==
    StartsAt(fn, 1, libname \o <<"-">>) /\ match_libfile_version(fn) # NoMatch

RECURSIVE LocalScan(_, _, _, _)
\* the loop of lines 340-348 over os.listdir(dest_dir)
LocalScan(libname, fns, latest, filename) ==
    IF fns = <<>> THEN [raised |-> FALSE, latest |-> latest, filename |-> filename]
    ELSE LET fn == Head(fns)
             version_tuple == MapTryint(Split(match_libfile_version(fn), ".", <<>>))
             gt == TupleLess(latest, version_tuple)
         IN IF ~ IsLocalCandidate(libname, fn)
            THEN LocalScan(libname, Tail(fns), latest, filename)
            ELSE IF gt = "TypeError"
                 THEN [raised |-> TRUE, latest |-> latest, filename |-> filename]
                 ELSE IF gt = "lt"
                      THEN LocalScan(libname, Tail(fns), version_tuple, fn)
                      ELSE LocalScan(libname, Tail(fns), latest, filename)

\* filename = 'zlib-%s.tar.gz', line 302
Template == <<"z", "l", "i", "b", "-", "%", "s", ".", "t", "a", "r", ".", "g", "z">>

\* filename % version, line 352
Format(template, v) ==
    LET k == CHOOSE i \in 1..(Len(template) - 1) : template[i] = "%" /\ template[i + 1] = "s"
    IN SubSeq(template, 1, k - 1) \o v \o SubSeq(template, k + 2, Len(template))

\* retry_after_seconds, line 367
RetryAfterSeconds == 2

\* The remote listings and download directories the calls are drawn from
RemoteNames == { <<"z", "l", "i", "b", "-", "1", ".", "2", ".", "3", ".", "t", "a", "r", ".", "g", "z">>,
                 <<"z", "l", "i", "b", "-", "2", ".", "1", "0", ".", "0", ".", "t", "a", "r", ".", "g", "z">>,
                 <<"z", "l", "i", "b", "-", "1", ".", ".", "2", ".", "t", "a", "r", ".", "g", "z">>,
                 <<"R", "E", "A", "D", "M", "E">> }
LocalNames == { <<"z", "l", "i", "b", "-", "1", ".", "2", ".", "3", ".", "t", "a", "r", ".", "g", "z">>,
                <<"z", "l", "i", "b", "-", "1", ".", "2", ".", "3", "-", "1", ".", "t", "a", "r", ".", "g", "z">>,
                <<"z", "l", "i", "b", "-", "0", ".", "0", ".", "0", ".", "t", "a", "r", ".", "g", "z">>,
                <<"x", "l", "i", "b", "-", "9", ".", "9", ".", "t", "a", "r", ".", "g", "z">> }
Distinct(q) == \A a, b \in 1..Len(q) : a # b => q[a] # q[b]

InitDl ==
    /\ location \in {"ftp", "http"}
    /\ remote \in SeqsUpTo(RemoteNames, MaxRemote)
    /\ localfiles \in {q \in SeqsUpTo(LocalNames, MaxLocal) : Distinct(q)}
    /\ \E v \in {<<>>, <<"1", ".", "2", ".", "3">>} :
           dl = [pc |-> IF v = <<>> THEN "listing" ELSE "named",
                 version |-> v, filename |-> Template, listing |-> "none",
                 attempts |-> 0, tries |-> <<>>, slept |-> 0, raised |-> "none",
                 result |-> <<>>]

\* lines 329-335: the listing is fetched and the largest version taken.
\* how = "ok": the request succeeds; "ftplib": urllib raises IOError and
\* remote_listdir (lines 151-158) falls back to ftplib, which succeeds;
\* "IOError": the request fails (for ftp:// also through ftplib).
FetchListing ==
    /\ dl.pc = "listing"
    /\ \E how \in (IF location = "ftp" THEN {"ok", "ftplib", "IOError"} ELSE {"ok", "IOError"}) :
       \E r \in {find_max_version(LibName,
                                  IF location = "ftp" THEN remote
                                  ELSE http_listfiles(LibName, remote),
                                  "download")} :
           dl' = IF how = "IOError"
                 THEN [dl EXCEPT !.pc = "fallback", !.listing = "IOError"]
                 ELSE IF r.raised # "none"
                      THEN [dl EXCEPT !.pc = "raised", !.listing = how, !.raised = r.raised]
                      ELSE [dl EXCEPT !.pc = "named", !.listing = how, !.version = r.value]
    /\ UNCHANGED <<location, remote, localfiles>>
    /\ UNCHANGED <<tarvars, vervars, dirvars, zipvars, bldvars>>

\* except IOError: lines 336-350
LocalFallback ==
    /\ dl.pc = "fallback"
    /\ \E r \in {LocalScan(LibName, localfiles, <<Zero, Zero, Zero>>, dl.filename)} :
           dl' = IF r.raised THEN [dl EXCEPT !.pc = "raised", !.raised = "TypeError"]
                 ELSE IF r.latest = <<Zero, Zero, Zero>>
                      THEN [dl EXCEPT !.pc = "raised", !.raised = "IOError"]
                      ELSE [dl EXCEPT !.pc = "named", !.filename = r.filename,
                                      !.version = <<>>]
    /\ UNCHANGED <<location, remote, localfiles>>
    /\ UNCHANGED <<tarvars, vervars, dirvars, zipvars, bldvars>>

\* lines 351-360: the file name is completed; an existing file is returned
CheckExisting ==
    /\ dl.pc = "named"
    /\ LET fname == IF dl.version # <<>> THEN Format(dl.filename, dl.version) ELSE dl.filename
       IN dl' = IF \E k \in 1..Len(localfiles) : localfiles[k] = fname
                THEN [dl EXCEPT !.pc = "returned", !.filename = fname, !.result = fname]
                ELSE [dl EXCEPT !.pc = "download", !.filename = fname]
    /\ UNCHANGED <<location, remote, localfiles>>
    /\ UNCHANGED <<tarvars, vervars, dirvars, zipvars, bldvars>>

\* mutant: any failure of the first attempt is retried
Retryable_AnyError(how) == how # "ok"

\* except urllib.error.URLError, line 365
Retryable(how) == how = "URLError"

\* lines 363-365: urlretrieve succeeds, raises URLError, or raises otherwise
FirstAttempt ==
    /\ dl.pc = "download"
    /\ \E how \in {"ok", "URLError", "OSError"} :
        /\ dl' = IF how = "ok"
                 THEN [dl EXCEPT !.pc = "returned", !.attempts = 1, !.tries = <<how>>,
                                 !.result = dl.filename]
                 ELSE IF Retryable(how)
                      THEN [dl EXCEPT !.pc = "retry", !.attempts = 1, !.tries = <<how>>]
                      ELSE [dl EXCEPT !.pc = "raised", !.attempts = 1, !.tries = <<how>>,
                                      !.raised = how]
        /\ localfiles' = IF how = "ok" THEN Append(localfiles, dl.filename) ELSE localfiles
    /\ UNCHANGED <<location, remote>>
    /\ UNCHANGED <<tarvars, vervars, dirvars, zipvars, bldvars>>

\* lines 366-370: sleep, then urlretrieve once more
Retry ==
    /\ dl.pc = "retry"
    /\ \E how \in {"ok", "URLError", "OSError"} :
        /\ dl' = IF how = "ok"
                 THEN [dl EXCEPT !.pc = "returned", !.attempts = 2,
                                 !.tries = Append(dl.tries, how),
                                 !.slept = RetryAfterSeconds, !.result = dl.filename]
                 ELSE [dl EXCEPT !.pc = "raised", !.attempts = 2,
                                 !.tries = Append(dl.tries, how),
                                 !.slept = RetryAfterSeconds, !.raised = how]
        /\ localfiles' = IF how = "ok" THEN Append(localfiles, dl.filename) ELSE localfiles
    /\ UNCHANGED <<location, remote>>
    /\ UNCHANGED <<tarvars, vervars, dirvars, zipvars, bldvars>>

\* no download_library call is in progress
IdleDl ==
    /\ location = "http" /\ remote = <<>> /\ localfiles = <<>>
    /\ dl = [pc |-> "idle", version |-> <<>>, filename |-> Template, listing |-> "none",
             attempts |-> 0, tries |-> <<>>, slept |-> 0, raised |-> "none",
                 result |-> <<>>]

NextDl == FetchListing \/ LocalFallback \/ CheckExisting \/ FirstAttempt \/ Retry

\* ------------------------------------------------ find_top_dir_of_zipfile
\* d.endswith('/'), line 89
EndsWithSlash(d) == d # <<>> /\ d[Len(d)] = "/"

\* dirs.sort(key=len); dirs[0], lines 91-92: the sort is stable, so this is
\* the first of the shortest entries
ShortestFirst(dirs) ==
    LET k == CHOOSE i \in 1..Len(dirs) :
                 /\ \A j \in 1..Len(dirs) : Len(dirs[i]) <= Len(dirs[j])
                 /\ \A j \in 1..(i - 1) : Len(dirs[j]) > Len(dirs[i])
    IN dirs[k]

\* topdir[:topdir.index("/")+1], line 93
UpToFirstSlash(d) ==
    LET k == CHOOSE i \in 1..Len(d) : d[i] = "/" /\ \A j \in 1..(i - 1) : d[j] # "/"
    IN SubSeq(d, 1, k)

RECURSIVE RStripSlash(_)
\* topdir.rstrip('/'), line 101
RStripSlash(d) ==
    IF d # <<>> /\ d[Len(d)] = "/" THEN RStripSlash(SubSeq(d, 1, Len(d) - 1)) ELSE d

\* find_top_dir_of_zipfile(zipfile), lines 86-101
find_top_dir_of_zipfile(files) ==
    LET dirs == SelectSeq(files, EndsWithSlash)
        topdir == UpToFirstSlash(ShortestFirst(dirs))
    IN IF /\ dirs # <<>>
          /\ \A k \in 1..Len(files) : StartsAt(files[k], 1, topdir)
       THEN [raised |-> "none", value |-> RStripSlash(topdir)]
       ELSE [raised |-> "AssertionError", value |-> <<>>]

\* The entry names an archive is drawn from
EntryNames == { <<"t", "o", "p", "/">>,
                <<"t", "o", "p", "/", "a">>,
                <<"t", "o", "p", "/", "s", "u", "b", "/">>,
                <<"t", "o", "p", "/", "s", "u", "b", "/", "b">>,
                <<"o", "t", "h", "e", "r", "/">>,
                <<"o", "t", "h", "e", "r", "/", "b">>,
                <<"t", "o", "p">> }

InitZip ==
    /\ filelist \in SeqsUpTo(EntryNames, MaxEntries)
    /\ ftd = [pc |-> "call", raised |-> "none", value |-> <<>>]

\* no find_top_dir_of_zipfile call is in progress
IdleZip ==
    /\ filelist = <<>>
    /\ ftd = [pc |-> "idle", raised |-> "none", value |-> <<>>]

\* find_top_dir_of_zipfile(zipfile) runs
FindTopDirOfZipfile ==
    /\ ftd.pc = "call"
    /\ \E r \in {find_top_dir_of_zipfile(filelist)} :
           ftd' = [pc |-> "done", raised |-> r.raised, value |-> r.value]
    /\ UNCHANGED filelist
    /\ UNCHANGED <<tarvars, vervars, dirvars, dlvars, bldvars>>

NextZip == FindTopDirOfZipfile

\* ------------------------------------------------------ build_libxml2xslt
\* lib_names, line 499, and the source directories of lines 489-493
LibNames == {"libz", "iconv", "libxml2", "libxslt", "libexslt"}
SourceDirs == {"zlib", "libiconv", "libxml2", "libxslt"}

\* the has_current_lib calls that decide on one source directory
\* (lines 535, 539, 560, 581)
LibsOf(d) ==
    IF d = "zlib" THEN <<"libz">>
    ELSE IF d = "libiconv" THEN <<"iconv">>
    ELSE IF d = "libxml2" THEN <<"libxml2">>
    ELSE <<"libxslt", "libexslt">>

\* the time a file written by this invocation gets
Now == MaxLibTime + MaxDirTime

\* lines 510-511: the library has a file, and it is newer than the directory
Found(name, build_dir) ==
    libmtime[name] # 0 /\ libmtime[name] > dirmtime[build_dir]

\* mutant: a library found not current does not set the flag
FlagAfter_Unchanged(flag, found) == flag

\* lines 512-516: the flag is set when the library is not found current
FlagAfter(flag, found) == IF found THEN flag ELSE TRUE

\* has_current_lib(name, build_dir), lines 507-517: [found, flag]
has_current_lib(name, build_dir, flag) ==
    IF flag THEN [found |-> FALSE, flag |-> flag]
    ELSE [found |-> Found(name, build_dir),
          flag |-> FlagAfter(flag, Found(name, build_dir))]

RECURSIVE AllCurrent(_, _, _)
\* has_current_lib(n1, d) and has_current_lib(n2, d), line 581: a call is
\* made only when those before it returned true
AllCurrent(names, d, flag) ==
    IF names = <<>> THEN [found |-> TRUE, flag |-> flag]
    ELSE LET r == has_current_lib(Head(names), d, flag)
         IN IF r.found THEN AllCurrent(Tail(names), d, r.flag) ELSE r

\* if not has_current_lib(...): cmmi(...) for source directory d; cmmi
\* succeeds and installs the libraries, or raises
BuildStep(d, next) ==
    /\ bld.pc = d
    /\ \E r \in {AllCurrent(LibsOf(d), d, build_all_following)} :
       \E how \in (IF r.found THEN {"ok"} ELSE {"ok", "fail"}) :
        /\ build_all_following' = r.flag
        /\ bld' = [pc |-> IF how = "ok" THEN next ELSE "error",
                   considered |-> Append(bld.considered, d),
                   rebuilt |-> IF r.found THEN bld.rebuilt ELSE Append(bld.rebuilt, d),
                   fresh |-> IF \A k \in 1..Len(LibsOf(d)) : Found(LibsOf(d)[k], d)
                             THEN bld.fresh \cup {d} ELSE bld.fresh]
        /\ libmtime' = IF ~ r.found /\ how = "ok"
                       THEN [l \in LibNames |->
                                IF \E k \in 1..Len(LibsOf(d)) : LibsOf(d)[k] = l
                                THEN Now ELSE libmtime[l]]
                       ELSE libmtime
        /\ dirmtime' = IF r.found THEN dirmtime ELSE [dirmtime EXCEPT ![d] = Now]
    /\ UNCHANGED with_zlib
    /\ UNCHANGED <<tarvars, vervars, dirvars, dlvars, zipvars>>

\* build zlib, lines 529-536
BuildZlib ==
    IF with_zlib THEN BuildStep("zlib", "libiconv")
    ELSE /\ bld.pc = "zlib"
         /\ bld' = [bld EXCEPT !.pc = "libiconv"]
         /\ UNCHANGED <<with_zlib, libmtime, dirmtime, build_all_following>>
         /\ UNCHANGED <<tarvars, vervars, dirvars, dlvars, zipvars>>

\* build libiconv, lines 538-540
BuildLibiconv == BuildStep("libiconv", "libxml2")

\* build libxml2, lines 542-564
BuildLibxml2 == BuildStep("libxml2", "libxslt")

\* build libxslt, lines 566-582
BuildLibxslt == BuildStep("libxslt", "done")

InitBld ==
    /\ with_zlib \in BOOLEAN
    /\ libmtime \in [LibNames -> 0..MaxLibTime]
    /\ dirmtime \in [SourceDirs -> 1..MaxDirTime]
    /\ build_all_following = FALSE
    /\ bld = [pc |-> "zlib", considered |-> <<>>, rebuilt |-> <<>>, fresh |-> {}]

\* no build_libxml2xslt call is in progress
IdleBld ==
    /\ with_zlib = FALSE
    /\ libmtime = [l \in LibNames |-> 0]
    /\ dirmtime = [d \in SourceDirs |-> 1]
    /\ build_all_following = FALSE
    /\ bld = [pc |-> "idle", considered |-> <<>>, rebuilt |-> <<>>, fresh |-> {}]

NextBld == BuildZlib \/ BuildLibiconv \/ BuildLibxml2 \/ BuildLibxslt

\* ------------------------------------------------------- specifications
\* one call of each function, the others idle
InitOfTar == InitTar /\ IdleVer /\ IdleDir /\ IdleDl /\ IdleZip /\ IdleBld
InitOfVer == IdleTar /\ InitVer /\ IdleDir /\ IdleDl /\ IdleZip /\ IdleBld
InitOfDir == IdleTar /\ IdleVer /\ InitDir /\ IdleDl /\ IdleZip /\ IdleBld
InitOfDl == IdleTar /\ IdleVer /\ IdleDir /\ InitDl /\ IdleZip /\ IdleBld
InitOfZip == IdleTar /\ IdleVer /\ IdleDir /\ IdleDl /\ InitZip /\ IdleBld
InitOfBld == IdleTar /\ IdleVer /\ IdleDir /\ IdleDl /\ IdleZip /\ InitBld
SpecTar == InitOfTar /\ [][NextTar]_vars
SpecVer == InitOfVer /\ [][NextVer]_vars
SpecDir == InitOfDir /\ [][NextDir]_vars
SpecDl == InitOfDl /\ [][NextDl]_vars
SpecZip == InitOfZip /\ [][NextZip]_vars
SpecBld == InitOfBld /\ [][NextBld]_vars

\* ================================================= claims: unpack_tarball
\* The destination root and a member name's place under (or outside) it, as the
\* claims word them: name joined to the destination, normalised, absolute.
Root == NormParts(<<>>, cwd.parts \o dest.parts)
Place(name) ==
    IF name.abs THEN NormParts(<<>>, name.parts)
    ELSE NormParts(<<>>, cwd.parts \o dest.parts \o name.parts)
UnderRoot(loc) == Len(loc) >= Len(Root) /\ \A k \in 1..Len(Root) : loc[k] = Root[k]
ExtractedSet == {extracted[k] : k \in 1..Len(extracted)}

\* C1: a member whose name, joined to the destination and normalised, is
\* neither the destination root nor nested under it makes unpack_tarball raise
\* at that member: it is the last member read, neither it nor a later member
\* is extracted, the trailing directory pass has not run (no directory member
\* is extracted), and the step that reads the member writes nothing, outside
\* the root or inside it.
C1_Aborted ==
    \A i \in 1..pos :
        ~ UnderRoot(Place(archive[i].name)) =>
            /\ pc = "error"
            /\ err = "name"
            /\ errpos = i
            /\ pos = i
            /\ dpos = 0
            /\ \A j \in ExtractedSet : j < i /\ archive[j].type # "dir"
C1_Step ==
    (pc = "loop" /\ pos' = pos + 1 /\ ~ UnderRoot(Place(archive'[pos'].name))) =>
        fs' = fs /\ extracted' = extracted
C1_EscapingNameAborts == []C1_Aborted /\ [][C1_Step]_vars

\* C1 witness: the escaping member came after an extracted file and a deferred
\* directory.
C1_Witness ==
    /\ pc = "error" /\ err = "name" /\ errpos = 3
    /\ extracted # <<>>
    /\ directories # <<>>

\* The place a link member's target resolves to, as C2 words it: against the
\* link's containing directory (symbolic) or the destination root (hard).
TargetPlace(m) ==
    IF m.linkname.abs THEN NormParts(<<>>, m.linkname.parts)
    ELSE IF m.type = "sym"
         THEN NormParts(<<>>, SubSeq(Place(m.name), 1, Len(Place(m.name)) - 1)
                               \o m.linkname.parts)
         ELSE NormParts(<<>>, Root \o m.linkname.parts)

\* C2: a symbolic or hard link member whose name lies inside the root and
\* whose resolved target lies outside it makes unpack_tarball raise at that
\* member, before the link is created.
C2_EscapingLinkAborts ==
    \A i \in 1..pos :
        ( /\ archive[i].type \in {"sym", "lnk"}
          /\ UnderRoot(Place(archive[i].name))
          /\ ~ UnderRoot(TargetPlace(archive[i])) ) =>
            /\ pc = "error"
            /\ err = "link"
            /\ errpos = i
            /\ pos = i
            /\ i \notin ExtractedSet
            /\ dpos = 0

\* C2 witness: a hard link whose name is inside the root was rejected for its
\* target, after an earlier member had been extracted.
C2_Witness ==
    /\ pc = "error" /\ err = "link"
    /\ archive[errpos].type = "lnk"
    /\ extracted # <<>>

\* C3 (as claimed): when unpack_tarball has returned, every member it extracted,
\* directory members included, has the returned top-level directory as its
\* first path component, and every member with another first component was
\* logged and skipped.
C3_AllExtractedShareTopDir ==
    pc = "returned" =>
        /\ \A j \in ExtractedSet : join(dest, Rel(<<FirstDir(archive[j].name)>>)) = result
        /\ \A i \in 1..Len(archive) :
               join(dest, Rel(<<FirstDir(archive[i].name)>>)) # result
                   => i \in logged /\ i \notin ExtractedSet

\* C8: (step) a non-directory member whose destination path exists with the
\* member's recorded size is not extracted and the file system is left as it
\* is, whatever the existing file holds; (repeated call) when every regular
\* file of the archive is present with its recorded size as the second call
\* starts, the second call extracts none of them, and what it returns is what
\* the first call returned.
C8_Step ==
    (pc = "loop" /\ pos' = pos + 1) =>
        LET m == archive'[pos'] IN
        ( /\ m.type # "dir"
          /\ exists(fs, Abs(Place(m.name)))
          /\ getsize(fs, Abs(Place(m.name))) = m.size ) =>
            /\ extracted' = extracted
            /\ fs' = fs
RegularFiles == {i \in 1..Len(archive) : archive[i].type = "file"}
AllPresent(f) ==
    \A i \in RegularFiles :
        /\ exists(f, Abs(Place(archive[i].name)))
        /\ getsize(f, Abs(Place(archive[i].name))) = archive[i].size
C8_Rerun ==
    (run = 2 /\ first.pc = "returned" /\ AllPresent(first.fs)) =>
        /\ ExtractedSet \cap RegularFiles = {}
        /\ pc = "returned" => result = first.result
C8_SameSizeNotExtracted == [][C8_Step]_vars /\ []C8_Rerun

\* C8 witness: the second call returned having skipped a regular file whose
\* existing content is not the archive's.
C8_Witness ==
    /\ run = 2 /\ pc = "returned" /\ first.pc = "returned"
    /\ AllPresent(first.fs)
    /\ \E i \in samesize :
           /\ archive[i].type = "file"
           /\ fs[Place(archive[i].name)].data = "other"
    /\ result = first.result

\* C9: no directory member is extracted while the main pass runs; after it,
\* the directory members are extracted in their order in the archive, behind
\* every extracted non-directory member, and once the call has returned every
\* directory member of the archive has been extracted.
C9_DirectoriesLast ==
    LET isdir(k) == archive[extracted[k]].type = "dir"
    IN /\ pc = "loop" => \A k \in 1..Len(extracted) : ~ isdir(k)
       /\ (\E k \in 1..Len(extracted) : isdir(k)) => pos = Len(archive)
       /\ \A k, l \in 1..Len(extracted) :
              (k < l /\ isdir(k)) => isdir(l) /\ extracted[k] < extracted[l]
       /\ pc = "returned" =>
              \A i \in 1..Len(archive) : archive[i].type = "dir" => i \in ExtractedSet

\* C9 witness: two directory members ahead of a file in the archive were
\* extracted behind it.
C9_Witness ==
    /\ pc = "returned"
    /\ Len(extracted) = 3
    /\ archive[extracted[1]].type = "file"
    /\ extracted[1] = 3
    /\ extracted[2] = 1 /\ extracted[3] = 2

\* C12: a member that is neither regular file, directory, symbolic link nor
\* hard link makes unpack_tarball raise at that member: it is the last member
\* read, neither it nor a later member nor a deferred directory is extracted,
\* and no special file is ever created.
C12_UnexpectedTypeAborts ==
    /\ \A i \in 1..pos :
           archive[i].type \notin {"file", "dir", "sym", "lnk"} =>
               /\ pc = "error"
               /\ err \in {"type", "name"}
               /\ errpos = i
               /\ pos = i
               /\ dpos = 0
               /\ \A j \in ExtractedSet : j < i /\ archive[j].type # "dir"
    /\ \A loc \in DOMAIN fs : fs[loc].kind # "special"

\* C12 witness: a FIFO member whose name is inside the root was rejected
\* after a file had been extracted and a directory deferred.
C12_Witness ==
    /\ pc = "error" /\ err = "type" /\ errpos = 3
    /\ archive[3].type = "fifo"
    /\ extracted # <<>>
    /\ directories # <<>>

\* C15 (as claimed): whatever the archive, and with or without the tarfile
\* data filter, nothing is ever created or written outside the destination
\* root: every location of the file system that the destination did not
\* start with lies under the root.
C15_WritesStayInsideRoot ==
    \A loc \in DOMAIN fs : UnderRoot(loc) \/ loc \in DOMAIN EmptyFs

\* C16 (as claimed): a call that ends without an error of the name, link or
\* type check, and without tar.extract raising, has returned the destination
\* joined with the first path component of a member of the archive.
C16_ReturnsDefinedTopDir ==
    (pc \in {"returned", "error"} /\ err \notin {"name", "link", "type", "extract"}) =>
        /\ pc = "returned"
        /\ \E i \in 1..Len(archive) :
               result = join(dest, Rel(<<FirstDir(archive[i].name)>>))

\* ================================================ claims: find_max_version
\* what the pattern captures from the k-th file name of the call
Captured(k) == Search(version_re, LibName, filenames[k])
Matched == {k \in 1..Len(filenames) : Captured(k) # NoMatch}
HasDash(v) == \E k \in 1..Len(v) : v[k] = "-"
\* the part of a version string before its first "-"
NumericPrefix(v) == SplitMax(v, "-", 1, <<>>)[1]

\* C4: with the default pattern, when a plain release and a version with a
\* '-' suffix on the same numeric prefix are both candidates, and every
\* candidate has that numeric prefix, the plain release is the one returned.
C4_SuffixSortsBelowRelease ==
    (/\ fmv.pc = "done" /\ fmv.raised = "none" /\ version_re = "default"
     /\ \E a, b \in Matched : /\ ~ HasDash(Captured(a))
                              /\ HasDash(Captured(b))
                              /\ NumericPrefix(Captured(b)) = Captured(a)
                              /\ \A c \in Matched :
                                     NumericPrefix(Captured(c)) = Captured(a))
    => \E a \in Matched : ~ HasDash(Captured(a)) /\ fmv.value = Captured(a)

\* C5: ordering the version tuples never fails at runtime, neither in the
\* sort of find_max_version nor in the comparison of download_library's
\* fallback over the local files.
C5_OrderingNeverFails ==
    /\ fmv.pc = "done" => fmv.raised # "TypeError"
    /\ dl.pc = "raised" => dl.raised # "TypeError"

\* C6: find_max_version returns the captured version whose tuple is maximal,
\* file names that do not match never change the result, and an error is
\* raised exactly when no file name matches.
C6_ReturnsMaximumVersion ==
    fmv.pc = "done" =>
        /\ (fmv.raised # "none") <=> (Matched = {})
        /\ fmv.raised = "none" =>
               \E k \in Matched :
                   /\ fmv.value = Captured(k)
                   /\ \A j \in Matched :
                          TupleLess(VersionTuple(Captured(k)),
                                    VersionTuple(Captured(j))) # "lt"
        /\ LET matching(fn) == Search(version_re, LibName, fn) # NoMatch
               r == find_max_version(LibName, SelectSeq(filenames, matching), version_re)
           IN r.raised = fmv.raised /\ r.value = fmv.value

\* ============================ claims: http_find_latest_version_directory
\* the (major, minor) prefix of a version string that has at least two
\* dot-separated components, both integers; <<>> otherwise
MajorMinor(v) ==
    LET parts == Split(v, ".", <<>>)
    IN IF Len(parts) >= 2 /\ IsIntLiteral(parts[1]) /\ IsIntLiteral(parts[2])
       THEN <<tryint(parts[1]).n, tryint(parts[2]).n>>
       ELSE <<>>

\* C7: on a listing with at least one major.minor link, the call returns
\* the directory of the explicit version's (major, minor) prefix when that
\* pair is listed, and the numerically largest listed pair otherwise.
C7_PinsToExplicitVersion ==
    (hfl.pc = "done" /\ Directories(hrefs) # <<>>) =>
        LET ds == Directories(hrefs)
            listed == {ds[k] : k \in 1..Len(ds)}
            want == IF version # <<>> /\ MajorMinor(version) \in listed
                    THEN MajorMinor(version) ELSE MaxPair(ds)
        IN /\ hfl.raised = "none"
           /\ hfl.value = LOCATION \o Decimal(want[1]) \o <<".">>
                          \o Decimal(want[2]) \o <<"/">>

C13_AtMostOneRetry ==
    LET n == Len(dl.tries)
        copies == Cardinality({k \in 1..Len(localfiles) : localfiles[k] = dl.filename})
    IN /\ n <= 2 /\ dl.attempts = n
       /\ dl.slept = (IF n = 2 THEN 2 ELSE 0)
       /\ n >= 1 =>
              /\ dl.tries[1] = "ok" => n = 1 /\ dl.pc = "returned"
              /\ dl.tries[1] = "OSError" =>
                     n = 1 /\ dl.pc = "raised" /\ dl.raised = "OSError"
              /\ dl.tries[1] = "URLError" => n = 2 \/ dl.pc = "retry"
              \* the file was not there when the download began
              /\ copies = (IF dl.tries[n] = "ok" THEN 1 ELSE 0)
       /\ n = 2 =>
              /\ dl.tries[1] = "URLError"
              /\ dl.tries[2] = "ok" => dl.pc = "returned"
              /\ dl.tries[2] # "ok" => dl.pc = "raised" /\ dl.raised = dl.tries[2]
       /\ (dl.pc = "returned" /\ n = 0) =>
              \E k \in 1..Len(localfiles) : localfiles[k] = dl.result

\* C13 witness: the first attempt raised URLError, the second one failed as
\* well and its error was raised after the 2-second sleep.
C13_Witness ==
    /\ dl.tries = <<"URLError", "URLError">>
    /\ dl.pc = "raised" /\ dl.raised = "URLError" /\ dl.slept = 2

\* ========================================= claims: find_top_dir_of_zipfile
\* the entry lies under the top-level directory D (or is D's own entry)
UnderTop(entry, D) == StartsAt(entry, 1, D \o <<"/">>)
\* the first path component of an entry
TopOf(entry) == RStripSlash(UpToFirstSlash(entry \o <<"/">>))

\* C11: the call returns D exactly when every listed entry lies under the
\* one top-level directory D, and raises AssertionError otherwise.
C11_SingleTopDirOrAssertion ==
    ftd.pc = "done" =>
        LET tops == {TopOf(filelist[k]) : k \in 1..Len(filelist)}
            single == /\ Cardinality(tops) = 1
                      /\ \A k \in 1..Len(filelist) : \A D \in tops : UnderTop(filelist[k], D)
        IN /\ single => ftd.raised = "none" /\ ftd.value \in tops
           /\ ~ single => ftd.raised = "AssertionError"

\* =============================================== claims: build_libxml2xslt
\* the order of the build steps
BuildOrder == IF with_zlib THEN <<"zlib", "libiconv", "libxml2", "libxslt">>
              ELSE <<"libiconv", "libxml2", "libxslt">>
RebuiltSet == {bld.rebuilt[k] : k \in 1..Len(bld.rebuilt)}

\* C14: the libraries are considered in the order zlib, libiconv, libxml2,
\* libxslt; the flag is clear until a library is found not current; once a
\* library is rebuilt every library considered after it is rebuilt too,
\* whatever the age of its own pre-built file; and the flag, once set, stays
\* set.
C14_Considered ==
    /\ Len(bld.considered) <= Len(BuildOrder)
    /\ bld.considered = SubSeq(BuildOrder, 1, Len(bld.considered))
    /\ build_all_following <=> (RebuiltSet # {})
    /\ \A i, j \in 1..Len(bld.considered) :
           (i < j /\ bld.considered[i] \in RebuiltSet) => bld.considered[j] \in RebuiltSet
    /\ bld.pc = "done" => bld.considered = BuildOrder
C14_RebuildAllFollowing ==
    []C14_Considered /\ [][build_all_following => build_all_following']_vars

\* C14 witness: libxml2 was rebuilt, and libxslt after it although both of
\* its pre-built files were newer than its source directory.
C14_Witness ==
    /\ bld.pc = "done"
    /\ "libiconv" \notin RebuiltSet
    /\ "libxml2" \in RebuiltSet
    /\ "libxslt" \in RebuiltSet /\ "libxslt" \in bld.fresh

====
